---- MODULE Spec2Model ----
(***************************************************************************)
(* Model of streamlit_app.py: the three-agent LangGraph workflow           *)
(* (ParserAgent -> TranslationAgent -> SyntaxValidatorAgent -> END), the   *)
(* convert_snowflake_to_ansi entry point and the Streamlit chat handler    *)
(* that appends one entry per request to interactive_chat_history.         *)
(*                                                                         *)
(* A Python str is a sequence of atoms.  An atom is a TLA+ string standing *)
(* for the characters it spells: punctuation, whitespace and digits are    *)
(* one character each, words ("SELECT", "type", ...) are whole atoms.      *)
(* Positions (idx, end, pos) count atoms, 0-based as in Python.            *)
(***************************************************************************)
EXTENDS Naturals, Sequences, FiniteSets, TLC

\* ------------------------------------------------------------------------
\* Bounds of the model
\* ------------------------------------------------------------------------

\* number of chat inputs handled in one session
MaxRequests == 2

\* ------------------------------------------------------------------------
\* Python values
\* ------------------------------------------------------------------------

\* Python None
None == [t |-> "None"]

\* a Python str value (json.loads of a JSON string)
PyStr(text) == [t |-> "str", s |-> text]

\* a Python int value
PyInt(n) == [t |-> "int", n |-> n]

\* a Python bool
PyBool(b) == [t |-> "bool", b |-> b]

\* a Python dict: its (key, value) pairs in insertion order, keys unique
PyDict(pairs) == [t |-> "dict", items |-> pairs]

\* a Python list
PyList(elems) == [t |-> "list", elems |-> elems]

\* dict(pairs): a later pair with a key already present replaces the value
\* at the key's first position
RECURSIVE dict_set(_, _, _)
dict_set(pairs, key, value) ==
    IF pairs = <<>> THEN << <<key, value>> >>
    ELSE IF Head(pairs)[1] = key THEN << <<key, value>> >> \o Tail(pairs)
    ELSE << Head(pairs) >> \o dict_set(Tail(pairs), key, value)

\* ------------------------------------------------------------------------
\* str helpers
\* ------------------------------------------------------------------------

\* string.whitespace atoms of the model's alphabet
Whitespace == {" ", "\n", "\t", "\r"}

\* the digit atoms and their values
Digits == {"0", "1", "2", "3", "4", "5", "6", "7", "8", "9"}

DigitValue(d) ==
    CASE d = "0" -> 0 [] d = "1" -> 1 [] d = "2" -> 2 [] d = "3" -> 3
      [] d = "4" -> 4 [] d = "5" -> 5 [] d = "6" -> 6 [] d = "7" -> 7
      [] d = "8" -> 8 [] d = "9" -> 9

\* s[idx:idx+1] of Python: the atom at 0-based idx, "" past the end
At(s, idx) == IF idx < Len(s) THEN s[idx + 1] ELSE ""

RECURSIVE lstrip(_)
lstrip(s) ==
    IF s # <<>> /\ Head(s) \in Whitespace THEN lstrip(Tail(s)) ELSE s

RECURSIVE rstrip(_)
rstrip(s) ==
    IF s # <<>> /\ s[Len(s)] \in Whitespace
    THEN rstrip(SubSeq(s, 1, Len(s) - 1))
    ELSE s

\* str.strip(): leading and trailing whitespace removed, nothing else
strip(s) == rstrip(lstrip(s))

\* WHITESPACE.match(s, idx).end(): first position >= idx that is not whitespace
RECURSIVE SkipWs(_, _)
SkipWs(s, idx) ==
    IF idx < Len(s) /\ s[idx + 1] \in Whitespace THEN SkipWs(s, idx + 1) ELSE idx

\* `needle in s` for a one-atom needle
Contains(s, needle) == \E i \in 1..Len(s) : s[i] = needle

\* ------------------------------------------------------------------------
\* json.loads (json.decoder / json.scanner of the standard library)
\* ------------------------------------------------------------------------

\* a successful scan: the value and the position after it
Ok(obj, end) == [ok |-> TRUE, obj |-> obj, end |-> end]

\* JSONDecodeError(msg, doc, pos)
Err(msg, pos) == [ok |-> FALSE, msg |-> msg, pos |-> pos]

\* py_scanstring(s, end): end is the position after the opening quote
RECURSIVE scanstring(_, _, _)
scanstring(s, begin, end) ==
    IF end >= Len(s) THEN Err("Unterminated string starting at", begin)
    ELSE IF s[end + 1] = "\"" THEN Ok(SubSeq(s, begin + 2, end), end + 1)
    ELSE IF s[end + 1] \in {"\n", "\t", "\r"}
         THEN Err("Invalid control character at", end)
    ELSE scanstring(s, begin, end + 1)

\* NUMBER_RE on digit atoms: "0", or a non-zero digit and the digits after it
RECURSIVE ScanDigits(_, _, _)
ScanDigits(s, idx, acc) ==
    IF idx < Len(s) /\ s[idx + 1] \in Digits
    THEN ScanDigits(s, idx + 1, acc * 10 + DigitValue(s[idx + 1]))
    ELSE Ok(PyInt(acc), idx)

RECURSIVE scan_once(_, _)
RECURSIVE JSONObjectLoop(_, _, _)
RECURSIVE JSONArrayLoop(_, _, _)

\* JSONObject: s[end] is the position after "{"
JSONObject(s, end0) ==
    LET end1 == IF At(s, end0) # "\"" /\ At(s, end0) \in Whitespace
                THEN SkipWs(s, end0) ELSE end0
        nextchar == At(s, end1)
    IN  IF nextchar = "}" THEN Ok(PyDict(<<>>), end1 + 1)
        ELSE IF nextchar # "\""
             THEN Err("Expecting property name enclosed in double quotes", end1)
        ELSE JSONObjectLoop(s, end1 + 1, <<>>)

\* the `while True` loop of JSONObject: end is the position after the key's
\* opening quote
JSONObjectLoop(s, end, pairs) ==
    LET k == scanstring(s, end - 1, end)
    IN  IF ~k.ok THEN k
        ELSE
        LET c == IF At(s, k.end) # ":" THEN SkipWs(s, k.end) ELSE k.end
        IN  IF At(s, c) # ":" THEN Err("Expecting ':' delimiter", c)
            ELSE
            LET v == scan_once(s, SkipWs(s, c + 1))
            IN  IF ~v.ok THEN v
                ELSE
                LET pairs2 == dict_set(pairs, k.obj, v.obj)
                    e == SkipWs(s, v.end)
                    nextchar == At(s, e)
                IN  IF nextchar = "}" THEN Ok(PyDict(pairs2), e + 1)
                    ELSE IF nextchar # "," THEN Err("Expecting ',' delimiter", e)
                    ELSE
                    LET q == SkipWs(s, e + 1)
                    IN  IF At(s, q) # "\""
                        THEN Err("Expecting property name enclosed in double quotes", q)
                        ELSE JSONObjectLoop(s, q + 1, pairs2)

\* JSONArray: end0 is the position after "["
JSONArray(s, end0) ==
    LET end1 == SkipWs(s, end0)
    IN  IF At(s, end1) = "]" THEN Ok(PyList(<<>>), end1 + 1)
        ELSE JSONArrayLoop(s, end1, <<>>)

JSONArrayLoop(s, end, values) ==
    LET v == scan_once(s, end)
    IN  IF ~v.ok THEN v
        ELSE
        LET values2 == Append(values, v.obj)
            e == SkipWs(s, v.end)
            nextchar == At(s, e)
        IN  IF nextchar = "]" THEN Ok(PyList(values2), e + 1)
            ELSE IF nextchar # "," THEN Err("Expecting ',' delimiter", e)
            ELSE JSONArrayLoop(s, SkipWs(s, e + 1), values2)

\* py_make_scanner._scan_once; StopIteration(idx) becomes "Expecting value".
\* Numbers are the non-negative integers: the alphabet has no sign, fraction,
\* exponent, NaN or Infinity atoms, and no backslash inside strings.
scan_once(s, idx) ==
    LET nextchar == At(s, idx)
    IN  IF nextchar = "\"" THEN
            LET r == scanstring(s, idx, idx + 1)
            IN  IF r.ok THEN Ok(PyStr(r.obj), r.end) ELSE r
        ELSE IF nextchar = "{" THEN JSONObject(s, idx + 1)
        ELSE IF nextchar = "[" THEN JSONArray(s, idx + 1)
        ELSE IF nextchar = "null" THEN Ok(None, idx + 1)
        ELSE IF nextchar = "true" THEN Ok(PyBool(TRUE), idx + 1)
        ELSE IF nextchar = "false" THEN Ok(PyBool(FALSE), idx + 1)
        ELSE IF nextchar = "0" THEN Ok(PyInt(0), idx + 1)
        ELSE IF nextchar \in Digits THEN ScanDigits(s, idx, 0)
        ELSE Err("Expecting value", idx)

\* JSONDecoder.decode: one value, whitespace around it, nothing after it
decode(s) ==
    LET r == scan_once(s, SkipWs(s, 0))
    IN  IF ~r.ok THEN r
        ELSE LET end == SkipWs(s, r.end)
             IN  IF end # Len(s) THEN Err("Extra data", end) ELSE r

\* int -> its decimal digit atoms
RECURSIVE IntAtoms(_)
IntAtoms(n) ==
    LET d == CHOOSE x \in Digits : DigitValue(x) = n % 10
    IN  IF n < 10 THEN <<d>> ELSE IntAtoms(n \div 10) \o <<d>>

\* lineno / colno of JSONDecodeError: newlines before pos, offset in the line
RECURSIVE CountNewlines(_, _)
CountNewlines(s, pos) ==
    IF pos = 0 THEN 0
    ELSE CountNewlines(s, pos - 1) + (IF s[pos] = "\n" THEN 1 ELSE 0)

RECURSIVE LastNewline(_, _)
LastNewline(s, pos) ==
    IF pos = 0 THEN 0 ELSE IF s[pos] = "\n" THEN pos ELSE LastNewline(s, pos - 1)

\* str(e) of a JSONDecodeError: "<msg>: line L column C (char P)"
JSONDecodeErrorStr(s, e) ==
    <<e.msg, ":", " ", "line", " ">> \o IntAtoms(CountNewlines(s, e.pos) + 1)
        \o <<" ", "column", " ">> \o IntAtoms(e.pos - LastNewline(s, e.pos) + 1)
        \o <<" ", "(", "char", " ">> \o IntAtoms(e.pos) \o <<")">>

\* ------------------------------------------------------------------------
\* json.dumps(obj, indent=2)
\* ------------------------------------------------------------------------

\* py_encode_basestring_ascii on one atom
EscapeAtom(a) ==
    CASE a = "\"" -> <<"\\", "\"">>
      [] a = "\\" -> <<"\\", "\\">>
      [] a = "\n" -> <<"\\", "n">>
      [] a = "\t" -> <<"\\", "t">>
      [] a = "\r" -> <<"\\", "r">>
      [] OTHER -> <<a>>

RECURSIVE EscapeText(_)
EscapeText(s) == IF s = <<>> THEN <<>> ELSE EscapeAtom(Head(s)) \o EscapeText(Tail(s))

\* a quoted JSON string
Quoted(s) == <<"\"">> \o EscapeText(s) \o <<"\"">>

\* "\n" followed by 2 * level spaces
RECURSIVE Spaces(_)
Spaces(n) == IF n = 0 THEN <<>> ELSE <<" ">> \o Spaces(n - 1)

NewlineIndent(level) == <<"\n">> \o Spaces(2 * level)

RECURSIVE dumps_at(_, _)
RECURSIVE dumps_items(_, _)
RECURSIVE dumps_elems(_, _)

\* _iterencode_dict body: "key": value joined by "," newline indent
dumps_items(pairs, level) ==
    LET one == Quoted(Head(pairs)[1]) \o <<":", " ">> \o dumps_at(Head(pairs)[2], level)
    IN  IF Len(pairs) = 1 THEN one
        ELSE one \o <<",">> \o NewlineIndent(level) \o dumps_items(Tail(pairs), level)

\* _iterencode_list body
dumps_elems(elems, level) ==
    LET one == dumps_at(Head(elems), level)
    IN  IF Len(elems) = 1 THEN one
        ELSE one \o <<",">> \o NewlineIndent(level) \o dumps_elems(Tail(elems), level)

\* _iterencode at nesting depth `level`
dumps_at(obj, level) ==
    CASE obj.t = "None" -> <<"null">>
      [] obj.t = "bool" -> IF obj.b THEN <<"true">> ELSE <<"false">>
      [] obj.t = "int" -> IntAtoms(obj.n)
      [] obj.t = "str" -> Quoted(obj.s)
      [] obj.t = "dict" ->
            IF obj.items = <<>> THEN <<"{", "}">>
            ELSE <<"{">> \o NewlineIndent(level + 1) \o dumps_items(obj.items, level + 1)
                 \o NewlineIndent(level) \o <<"}">>
      [] obj.t = "list" ->
            IF obj.elems = <<>> THEN <<"[", "]">>
            ELSE <<"[">> \o NewlineIndent(level + 1) \o dumps_elems(obj.elems, level + 1)
                 \o NewlineIndent(level) \o <<"]">>

json_dumps(obj) == dumps_at(obj, 0)

\* ------------------------------------------------------------------------
\* Inputs: what the user types and what the LLM returns
\* ------------------------------------------------------------------------

Q == "\""

\* the atom for a Markdown code fence (three backquotes)
FENCE == "FENCE"

\* st.chat_input values that pass `if user_question:` (non-empty)
Questions ==
    { <<"SELECT", " ", "1">>,
      <<"SELECT", " ", "a", " ", "ILIKE", " ", "'x'">> }

\* response.content of the ParserAgent call: empty text, a JSON object, the
\* JSON null, an object with the keys error and raw_response, fenced JSON,
\* truncated JSON, and JSON followed by more text
ParserContents ==
    { <<>>,
      <<"{", Q, "type", Q, ":", Q, "select_statement", Q, ",", " ",
             Q, "select_list", Q, ":", " ", "[", "1", "]", "}">>,
      <<"null">>,
      <<"{", Q, "error", Q, ":", " ", Q, "e", Q, ",", " ",
             Q, "raw_response", Q, ":", " ", Q, "r", Q, "}">>,
      <<FENCE, "json", "\n", "{", "}", "\n", FENCE>>,
      <<"{", Q, "type", Q, ":">>,
      <<"{", "}", "\n", "SELECT">> }

\* response.content of the TranslationAgent and SyntaxValidatorAgent calls:
\* empty, whitespace only, padded, fenced, and a statement naming "Error"
SqlContents ==
    { <<>>,
      <<" ", "\n">>,
      <<" ", "SELECT", " ", "1", "\n">>,
      <<FENCE, "sql", "\n", "SELECT", " ", "1", "\n", FENCE>>,
      <<"SELECT", " ", "Error">> }

\* str(e) of an exception raised by llm.invoke (network, auth, quota)
ServiceErrors == { <<"Connection", " ", "error.">> }

\* ------------------------------------------------------------------------
\* The agents (nodes of the workflow)
\* ------------------------------------------------------------------------

\* the three system prompts, by name
ParserPrompt == "SQL parsing assistant"
TranslatorPrompt == "expert SQL translator"
ValidatorPrompt == "advanced SQL validator"

\* ast_data with the except branch dropping the failure: ast_data = None
ast_data_none_on_failure(content) ==
    LET r == decode(content) IN IF r.ok THEN r.obj ELSE None

\* the try/except around json.loads in parse_sql_to_ast
ast_data(content) ==
    LET r == decode(content)
    IN  IF r.ok THEN r.obj
        ELSE PyDict(<< << <<"error">>, PyStr(JSONDecodeErrorStr(content, r)) >>,
                       << <<"raw_response">>, PyStr(content) >> >>)

\* parse_sql_to_ast: the user message it sends
parse_user_message(st) == <<"SQL to parse:", "\n">> \o st.input_query

\* parse_sql_to_ast: the update it returns for response.content
parse_sql_to_ast(st, content) == [ast |-> ast_data(content)]

\* translate_user_message that leaves a failed AST out of the message
translate_user_message_skip_error(st) ==
    <<"Original Snowflake SQL:", "\n">> \o st.input_query \o <<"\n", "\n">>
        \o <<"AST:", "\n">>
        \o (IF st.ast.t = "dict" /\ st.ast.items # <<>>
               /\ st.ast.items[1][1] = <<"error">>
            THEN <<>> ELSE json_dumps(st.ast))

\* translate_ast_to_ansi: the user message it sends
translate_user_message(st) ==
    <<"Original Snowflake SQL:", "\n">> \o st.input_query \o <<"\n", "\n">>
        \o <<"AST:", "\n">> \o json_dumps(st.ast)

\* translate_ast_to_ansi: the update it returns for response.content
translate_ast_to_ansi(st, content) == [final_sql |-> strip(content)]

\* validate_user_message with the two statements swapped
validate_user_message_swapped(st) ==
    <<"Original Snowflake SQL:", "\n">> \o st.final_sql \o <<"\n", "\n">>
        \o <<"ANSI SQL:", "\n">> \o st.input_query

\* validate_user_message that also sends the AST
validate_user_message_with_ast(st) ==
    <<"Original Snowflake SQL:", "\n">> \o st.input_query \o <<"\n", "\n">>
        \o <<"AST:", "\n">> \o json_dumps(st.ast) \o <<"\n", "\n">>
        \o <<"ANSI SQL:", "\n">> \o st.final_sql

\* validate_ansi_sql: the user message it sends
validate_user_message(st) ==
    <<"Original Snowflake SQL:", "\n">> \o st.input_query \o <<"\n", "\n">>
        \o <<"ANSI SQL:", "\n">> \o st.final_sql

\* validate_ansi_sql that keeps the candidate when the response is blank
validate_ansi_sql_keep_candidate(st, content) ==
    [final_sql |-> IF strip(content) = <<>> THEN st.final_sql ELSE strip(content)]

\* validate_ansi_sql that also returns the ast key, cleared
validate_ansi_sql_writes_ast(st, content) ==
    [final_sql |-> strip(content), ast |-> None]

\* validate_ansi_sql: the update it returns for response.content
validate_ansi_sql(st, content) == [final_sql |-> strip(content)]

\* ------------------------------------------------------------------------
\* The workflow graph
\* ------------------------------------------------------------------------

\* workflow.set_entry_point
EntryPoint == "ParserAgent"

\* add_edge with the ParserAgent wired straight to the validator
Edge_skip_translation(node) ==
    CASE node = "ParserAgent" -> "SyntaxValidatorAgent"
      [] node = "TranslationAgent" -> "SyntaxValidatorAgent"
      [] node = "SyntaxValidatorAgent" -> "END"

\* workflow.add_edge
Edge(node) ==
    CASE node = "ParserAgent" -> "TranslationAgent"
      [] node = "TranslationAgent" -> "SyntaxValidatorAgent"
      [] node = "SyntaxValidatorAgent" -> "END"

Nodes == {"ParserAgent", "TranslationAgent", "SyntaxValidatorAgent"}

\* the graph engine applies a node's update: the keys it returns replace the
\* state's values (last-value channels), the others keep theirs
ApplyUpdate(st, update) ==
    [k \in DOMAIN st |-> IF k \in DOMAIN update THEN update[k] ELSE st[k]]

\* ConverterState(...) of convert_snowflake_to_ansi
initial_state(sql_query) ==
    [input_query |-> sql_query, ast |-> None, final_sql |-> <<>>]

\* dict.get(key, default) on the final state
Get(st, key, default) == IF key \in DOMAIN st THEN st[key] ELSE default

\* intermediate_results that also carries the final SQL
convert_intermediate_with_sql(final_state) ==
    PyDict(dict_set(dict_set(<<>>, <<"AST">>, Get(final_state, "ast", PyDict(<<>>))),
                    <<"final_sql">>, PyStr(final_state.final_sql)))

\* intermediate_results of convert_snowflake_to_ansi
convert_intermediate(final_state) ==
    PyDict(dict_set(<<>>, <<"AST">>, Get(final_state, "ast", PyDict(<<>>))))

\* the result text convert_snowflake_to_ansi returns
convert_result(final_state) == final_state.final_sql

\* f"Error: {e}"
error_answer(e) == <<"Error", ":", " ">> \o e

\* chat_entry of the chat input handler
chat_entry(question, answer, intermediate) ==
    [question |-> question, answer |-> answer, intermediate |-> intermediate]

\* ------------------------------------------------------------------------
\* The page
\* ------------------------------------------------------------------------

\* truth value of a dict: it has an item
Truthy(d) == d.items # <<>>

\* the values the expander shows: the items whose step_name is "AST"
ast_steps(d) ==
    LET IsAst(p) == p[1] = <<"AST">> IN SelectSeq(d.items, IsAst)

\* one assistant message: st.error or st.code of the text, and the expander
\* "View Intermediate Steps" when there is one
Message(is_error, text, has_expander, d) ==
    [widget |-> IF is_error THEN "st.error" ELSE "st.code",
     text |-> text,
     expander |-> has_expander,
     steps |-> IF has_expander THEN ast_steps(d) ELSE <<>>]

\* "Display previous messages": one entry of the history
replay_render(chat) ==
    Message(Contains(chat.answer, "Error"), chat.answer,
            "intermediate" \in DOMAIN chat /\ Truthy(chat.intermediate),
            chat.intermediate)

\* "Display previous messages": the loop over the history
replay_history(history) ==
    [i \in 1..Len(history) |-> replay_render(history[i])]

\* the assistant message of the chat input handler
live_render(ok, answer, intermediate) ==
    Message(~ok, answer, ok /\ Truthy(intermediate), intermediate)

\* ------------------------------------------------------------------------
\* State
\* ------------------------------------------------------------------------

VARIABLES
    interactive_chat_history,  \* st.session_state.interactive_chat_history
    user_question,             \* the chat input being handled, <<>> when none
    pc,                        \* "idle", the node running, "END", "raised", "save"
    state,                     \* the ConverterState of the running workflow
    llm_call,                  \* the llm.invoke call in flight: its two messages
    prompts,                   \* system prompts of the llm.invoke calls made, in order
    response,                  \* response.content of the latest llm.invoke call (a str)
    parser_response,           \* response.content the ParserAgent received (a str)
    exc,                       \* str(e) of the exception in flight
    success,                   \* handler local
    ansi_result,               \* handler local
    intermediate_results,      \* handler local
    screen                     \* the assistant messages on the page, one per entry

vars == <<interactive_chat_history, user_question, pc, state, llm_call, prompts,
          response, parser_response, exc, success, ansi_result,
          intermediate_results, screen>>

\* a name that is not bound
Unset == [t |-> "unset"]

handler_locals == <<success, ansi_result, intermediate_results>>

Init ==
    /\ interactive_chat_history = <<>>
    /\ user_question = <<>>
    /\ pc = "idle"
    /\ state = Unset
    /\ llm_call = Unset
    /\ prompts = <<>>
    /\ response = Unset
    /\ parser_response = Unset
    /\ exc = <<>>
    /\ success = FALSE
    /\ ansi_result = <<>>
    /\ intermediate_results = Unset
    /\ screen = <<>>

\* ------------------------------------------------------------------------
\* Actions
\* ------------------------------------------------------------------------

\* st.chat_input delivers a query: the script reruns, displays the previous
\* messages from the history, and the handler calls
\* convert_snowflake_to_ansi, which builds the initial state and enters the
\* graph at its entry point
ChatInput(q) ==
    /\ pc = "idle"
    /\ Len(interactive_chat_history) < MaxRequests
    /\ user_question' = q
    /\ state' = initial_state(q)
    /\ pc' = EntryPoint
    /\ screen' = replay_history(interactive_chat_history)
    /\ UNCHANGED <<interactive_chat_history, llm_call, prompts, response,
                   parser_response, exc, handler_locals>>

\* a node builds its messages and calls llm.invoke
NodeInvokes(node, prompt, message) ==
    /\ pc = node
    /\ llm_call = Unset
    /\ llm_call' = [system |-> prompt, user |-> message]
    /\ prompts' = Append(prompts, prompt)
    /\ UNCHANGED <<interactive_chat_history, user_question, pc, state, response,
                   parser_response, exc, handler_locals, screen>>

\* llm.invoke returns a message: the node returns its update, the engine
\* applies it and follows the node's edge
NodeReturns(node, content, update) ==
    /\ pc = node
    /\ llm_call # Unset
    /\ llm_call' = Unset
    /\ response' = PyStr(content)
    /\ parser_response' = IF node = EntryPoint THEN PyStr(content) ELSE parser_response
    /\ state' = ApplyUpdate(state, update)
    /\ pc' = Edge(node)
    /\ UNCHANGED <<interactive_chat_history, user_question, prompts, exc,
                   handler_locals, screen>>

\* llm.invoke raises: the exception leaves the node, app.invoke and
\* convert_snowflake_to_ansi
NodeRaises(node, e) ==
    /\ pc = node
    /\ llm_call # Unset
    /\ llm_call' = Unset
    /\ response' = Unset
    /\ exc' = e
    /\ pc' = "raised"
    /\ UNCHANGED <<interactive_chat_history, user_question, state, prompts,
                   parser_response, handler_locals, screen>>

ParserAgent ==
    \/ NodeInvokes("ParserAgent", ParserPrompt, parse_user_message(state))
    \/ \E content \in ParserContents :
          NodeReturns("ParserAgent", content, parse_sql_to_ast(state, content))
    \/ \E e \in ServiceErrors : NodeRaises("ParserAgent", e)

TranslationAgent ==
    \/ NodeInvokes("TranslationAgent", TranslatorPrompt,
                   translate_user_message(state))
    \/ \E content \in SqlContents :
          NodeReturns("TranslationAgent", content,
                      translate_ast_to_ansi(state, content))
    \/ \E e \in ServiceErrors : NodeRaises("TranslationAgent", e)

SyntaxValidatorAgent ==
    \/ NodeInvokes("SyntaxValidatorAgent", ValidatorPrompt,
                   validate_user_message(state))
    \/ \E content \in SqlContents :
          NodeReturns("SyntaxValidatorAgent", content,
                      validate_ansi_sql(state, content))
    \/ \E e \in ServiceErrors : NodeRaises("SyntaxValidatorAgent", e)

\* a convert that raises when the final SQL is empty
ConvertReturns_empty_fails ==
    /\ pc = "END"
    /\ ansi_result' = IF state.final_sql = <<>>
                      THEN error_answer(<<"empty", " ", "result">>)
                      ELSE convert_result(state)
    /\ intermediate_results' = IF state.final_sql = <<>>
                               THEN PyDict(<<>>)
                               ELSE convert_intermediate(state)
    /\ success' = (state.final_sql # <<>>)
    /\ pc' = "save"
    /\ UNCHANGED <<interactive_chat_history, user_question, state, llm_call,
                   prompts, response, parser_response, exc, screen>>

\* app.invoke returned the final state: convert_snowflake_to_ansi returns
\* and the handler's try block completes
ConvertReturns ==
    /\ pc = "END"
    /\ ansi_result' = convert_result(state)
    /\ intermediate_results' = convert_intermediate(state)
    /\ success' = TRUE
    /\ pc' = "save"
    /\ UNCHANGED <<interactive_chat_history, user_question, state, llm_call,
                   prompts, response, parser_response, exc, screen>>

\* an except block that keeps the artifacts of the state reached so far
ConvertRaises_partial ==
    /\ pc = "raised"
    /\ success' = FALSE
    /\ intermediate_results' = convert_intermediate(state)
    /\ ansi_result' = error_answer(exc)
    /\ pc' = "save"
    /\ UNCHANGED <<interactive_chat_history, user_question, state, llm_call,
                   prompts, response, parser_response, exc, screen>>

\* the handler's except block
ConvertRaises ==
    /\ pc = "raised"
    /\ success' = FALSE
    /\ intermediate_results' = PyDict(<<>>)
    /\ ansi_result' = error_answer(exc)
    /\ pc' = "save"
    /\ UNCHANGED <<interactive_chat_history, user_question, state, llm_call,
                   prompts, response, parser_response, exc, screen>>

\* a handler that saves the entry only when the conversion succeeded
SaveEntry_success_only ==
    /\ pc = "save"
    /\ interactive_chat_history' =
           IF success
           THEN Append(interactive_chat_history,
                       chat_entry(user_question, ansi_result, intermediate_results))
           ELSE interactive_chat_history
    /\ pc' = "idle"
    /\ user_question' = <<>>
    /\ state' = Unset
    /\ prompts' = <<>>
    /\ response' = Unset
    /\ parser_response' = Unset
    /\ exc' = <<>>
    /\ success' = FALSE
    /\ ansi_result' = <<>>
    /\ intermediate_results' = Unset
    /\ screen' = Append(screen, live_render(success, ansi_result, intermediate_results))
    /\ UNCHANGED llm_call

\* the handler appends the chat entry and renders the assistant message; the
\* script run ends and its names go out of scope
SaveEntry ==
    /\ pc = "save"
    /\ interactive_chat_history' =
           Append(interactive_chat_history,
                  chat_entry(user_question, ansi_result, intermediate_results))
    /\ pc' = "idle"
    /\ user_question' = <<>>
    /\ state' = Unset
    /\ prompts' = <<>>
    /\ response' = Unset
    /\ parser_response' = Unset
    /\ exc' = <<>>
    /\ success' = FALSE
    /\ ansi_result' = <<>>
    /\ intermediate_results' = Unset
    /\ screen' = Append(screen, live_render(success, ansi_result, intermediate_results))
    /\ UNCHANGED llm_call

Next ==
    \/ \E q \in Questions : ChatInput(q)
    \/ ParserAgent
    \/ TranslationAgent
    \/ SyntaxValidatorAgent
    \/ ConvertReturns
    \/ ConvertRaises
    \/ SaveEntry

Spec == Init /\ [][Next]_vars

\* ------------------------------------------------------------------------
\* Concurrent sessions
\*
\* Streamlit runs the script of each browser session in a thread of its own,
\* with its own names and its own st.session_state.  In ConcurrentSpec every
\* variable is a function from the session to the value the variable has in
\* that session's script run, and the steps of the sessions interleave at
\* the llm.invoke calls.  Each session handles one chat input.
\* ------------------------------------------------------------------------

Sessions == {"A", "B"}

\* f with the value of session s replaced
Bind(f, s, v) == [f EXCEPT ![s] = v]

\* a workflow state kept in one module-level object shared by the sessions
StoreState_shared(states, s, st) == [x \in DOMAIN states |-> st]

\* app.invoke keeps the state of an invocation in channels of its own
StoreState(states, s, st) == [states EXCEPT ![s] = st]

CInit ==
    /\ interactive_chat_history = [s \in Sessions |-> <<>>]
    /\ user_question = [s \in Sessions |-> <<>>]
    /\ pc = [s \in Sessions |-> "idle"]
    /\ state = [s \in Sessions |-> Unset]
    /\ llm_call = [s \in Sessions |-> Unset]
    /\ prompts = [s \in Sessions |-> <<>>]
    /\ response = [s \in Sessions |-> Unset]
    /\ parser_response = [s \in Sessions |-> Unset]
    /\ exc = [s \in Sessions |-> <<>>]
    /\ success = [s \in Sessions |-> FALSE]
    /\ ansi_result = [s \in Sessions |-> <<>>]
    /\ intermediate_results = [s \in Sessions |-> Unset]
    /\ screen = [s \in Sessions |-> <<>>]

CChatInput(s, q) ==
    /\ pc[s] = "idle"
    /\ interactive_chat_history[s] = <<>>
    /\ user_question' = Bind(user_question, s, q)
    /\ state' = StoreState(state, s, initial_state(q))
    /\ pc' = Bind(pc, s, EntryPoint)
    /\ screen' = Bind(screen, s, replay_history(interactive_chat_history[s]))
    /\ UNCHANGED <<interactive_chat_history, llm_call, prompts, response,
                   parser_response, exc, handler_locals>>

CNodeInvokes(s, node, prompt, message) ==
    /\ pc[s] = node
    /\ llm_call[s] = Unset
    /\ llm_call' = Bind(llm_call, s, [system |-> prompt, user |-> message])
    /\ prompts' = Bind(prompts, s, Append(prompts[s], prompt))
    /\ UNCHANGED <<interactive_chat_history, user_question, pc, state, response,
                   parser_response, exc, handler_locals, screen>>

CNodeReturns(s, node, content, update) ==
    /\ pc[s] = node
    /\ llm_call[s] # Unset
    /\ llm_call' = Bind(llm_call, s, Unset)
    /\ response' = Bind(response, s, PyStr(content))
    /\ parser_response' =
          IF node = EntryPoint THEN Bind(parser_response, s, PyStr(content))
          ELSE parser_response
    /\ state' = StoreState(state, s, ApplyUpdate(state[s], update))
    /\ pc' = Bind(pc, s, Edge(node))
    /\ UNCHANGED <<interactive_chat_history, user_question, prompts, exc,
                   handler_locals, screen>>

CNodeRaises(s, node, e) ==
    /\ pc[s] = node
    /\ llm_call[s] # Unset
    /\ llm_call' = Bind(llm_call, s, Unset)
    /\ response' = Bind(response, s, Unset)
    /\ exc' = Bind(exc, s, e)
    /\ pc' = Bind(pc, s, "raised")
    /\ UNCHANGED <<interactive_chat_history, user_question, state, prompts,
                   parser_response, handler_locals, screen>>

CParserAgent(s) ==
    \/ CNodeInvokes(s, "ParserAgent", ParserPrompt, parse_user_message(state[s]))
    \/ \E content \in ParserContents :
          CNodeReturns(s, "ParserAgent", content,
                       parse_sql_to_ast(state[s], content))
    \/ \E e \in ServiceErrors : CNodeRaises(s, "ParserAgent", e)

CTranslationAgent(s) ==
    \/ CNodeInvokes(s, "TranslationAgent", TranslatorPrompt,
                    translate_user_message(state[s]))
    \/ \E content \in SqlContents :
          CNodeReturns(s, "TranslationAgent", content,
                       translate_ast_to_ansi(state[s], content))
    \/ \E e \in ServiceErrors : CNodeRaises(s, "TranslationAgent", e)

CSyntaxValidatorAgent(s) ==
    \/ CNodeInvokes(s, "SyntaxValidatorAgent", ValidatorPrompt,
                    validate_user_message(state[s]))
    \/ \E content \in SqlContents :
          CNodeReturns(s, "SyntaxValidatorAgent", content,
                       validate_ansi_sql(state[s], content))
    \/ \E e \in ServiceErrors : CNodeRaises(s, "SyntaxValidatorAgent", e)

CConvertReturns(s) ==
    /\ pc[s] = "END"
    /\ ansi_result' = Bind(ansi_result, s, convert_result(state[s]))
    /\ intermediate_results' =
          Bind(intermediate_results, s, convert_intermediate(state[s]))
    /\ success' = Bind(success, s, TRUE)
    /\ pc' = Bind(pc, s, "save")
    /\ UNCHANGED <<interactive_chat_history, user_question, state, llm_call,
                   prompts, response, parser_response, exc, screen>>

CConvertRaises(s) ==
    /\ pc[s] = "raised"
    /\ success' = Bind(success, s, FALSE)
    /\ intermediate_results' = Bind(intermediate_results, s, PyDict(<<>>))
    /\ ansi_result' = Bind(ansi_result, s, error_answer(exc[s]))
    /\ pc' = Bind(pc, s, "save")
    /\ UNCHANGED <<interactive_chat_history, user_question, state, llm_call,
                   prompts, response, parser_response, exc, screen>>

CSaveEntry(s) ==
    /\ pc[s] = "save"
    /\ interactive_chat_history' =
           Bind(interactive_chat_history, s,
                Append(interactive_chat_history[s],
                       chat_entry(user_question[s], ansi_result[s],
                                  intermediate_results[s])))
    /\ pc' = Bind(pc, s, "idle")
    /\ user_question' = Bind(user_question, s, <<>>)
    /\ state' = Bind(state, s, Unset)
    /\ prompts' = Bind(prompts, s, <<>>)
    /\ response' = Bind(response, s, Unset)
    /\ parser_response' = Bind(parser_response, s, Unset)
    /\ exc' = Bind(exc, s, <<>>)
    /\ success' = Bind(success, s, FALSE)
    /\ ansi_result' = Bind(ansi_result, s, <<>>)
    /\ intermediate_results' = Bind(intermediate_results, s, Unset)
    /\ screen' = Bind(screen, s,
                      Append(screen[s], live_render(success[s], ansi_result[s],
                                                    intermediate_results[s])))
    /\ UNCHANGED llm_call

CNext ==
    \E s \in Sessions :
        \/ \E q \in Questions : CChatInput(s, q)
        \/ CParserAgent(s)
        \/ CTranslationAgent(s)
        \/ CSyntaxValidatorAgent(s)
        \/ CConvertReturns(s)
        \/ CConvertRaises(s)
        \/ CSaveEntry(s)

ConcurrentSpec == CInit /\ [][CNext]_vars

\* ------------------------------------------------------------------------
\* Properties
\* ------------------------------------------------------------------------

\* the stages in the order the design names them
StageOrder == <<"ParserAgent", "TranslationAgent", "SyntaxValidatorAgent", "END">>
PromptOrder == <<ParserPrompt, TranslatorPrompt, ValidatorPrompt>>

StageIndex(p) == CHOOSE i \in 1..Len(StageOrder) : StageOrder[i] = p

\* a request is being handled
InRequest == pc # "idle"

\* the ErrorDocument for a response that json.loads rejects
ErrorDocument(content) ==
    PyDict(<< << <<"error">>, PyStr(JSONDecodeErrorStr(content, decode(content))) >>,
              << <<"raw_response">>, PyStr(content) >> >>)

\* the ParserAgent received a response that json.loads rejects
ParseFailed == parser_response # Unset /\ ~decode(parser_response.s).ok

\* C1: while every call returns text the stages run once each in the order
\* ParserAgent, TranslationAgent, SyntaxValidatorAgent, END: at each stage the
\* calls made so far are exactly those of the stages before it (and its own,
\* once it has called), and a step in which a call returns text moves to the
\* next stage in the order whatever the response is.
C1_LinearStages ==
    /\ [](pc \in {StageOrder[i] : i \in 1..Len(StageOrder)} =>
            LET i == StageIndex(pc)
                n == IF llm_call = Unset THEN i - 1 ELSE i
            IN  prompts = SubSeq(PromptOrder, 1, n))
    /\ [][(llm_call # Unset /\ llm_call' = Unset /\ response' # Unset) =>
            pc' = StageOrder[StageIndex(pc) + 1]]_vars

\* C1 witness: END reached after a malformed first and an empty second response
C1_Witness ==
    /\ pc = "END"
    /\ ParseFailed
    /\ response = PyStr(<<>>)
    /\ prompts = PromptOrder

\* C2: once the ParserAgent has its response the workflow has not raised in
\* stage 1, and state.ast is the deserialized value if json.loads accepts the
\* response, else the mapping {error: reason, raw_response: the response}.
C2_ParserNeverRaises ==
    parser_response # Unset =>
        /\ pc = "raised" => Len(prompts) > 1
        /\ LET r == decode(parser_response.s)
           IN  IF r.ok THEN state.ast = r.obj
               ELSE /\ state.ast.t = "dict"
                    /\ Len(state.ast.items) = 2
                    /\ state.ast.items[1] =
                          << <<"error">>,
                             PyStr(JSONDecodeErrorStr(parser_response.s, r)) >>
                    /\ state.ast.items[2] =
                          << <<"raw_response">>, parser_response >>

\* C2 witness: a truncated response was recorded as an ErrorDocument
C2_Witness ==
    /\ pc = "TranslationAgent"
    /\ parser_response.s = <<"{", Q, "type", Q, ":">>
    /\ state.ast = ErrorDocument(parser_response.s)

\* C3: after a response json.loads rejects, the request fails only if a later
\* llm.invoke raises; the TranslationAgent sends the original SQL and the
\* serialized ErrorDocument; and when convert returns, the result is the
\* validator's stripped response and the artifacts hold the ErrorDocument.
C3_DegradedParseContinues ==
    ParseFailed =>
        /\ pc = "raised" => Len(prompts) > 1
        /\ (pc = "TranslationAgent" /\ llm_call # Unset) =>
              llm_call.user =
                  <<"Original Snowflake SQL:", "\n">> \o user_question
                      \o <<"\n", "\n", "AST:", "\n">>
                      \o json_dumps(ErrorDocument(parser_response.s))
        /\ (pc = "save" /\ success) =>
              /\ ansi_result = strip(response.s)
              /\ intermediate_results =
                     PyDict(<< << <<"AST">>, ErrorDocument(parser_response.s) >> >>)

\* C3 witness: convert returned after a fenced (rejected) parser response
C3_Witness ==
    /\ pc = "save"
    /\ success
    /\ ParseFailed
    /\ prompts = PromptOrder
    /\ ansi_result = <<"SELECT", " ", "1">>

\* C4: when llm.invoke raises in stage k, exactly the calls of stages 1..k were
\* made (none twice, none after k), the state holds only what the stages
\* before k wrote, and the handler gets a failure with empty artifacts.
C4_ServiceFailureIsFatal ==
    (pc = "raised" \/ (pc = "save" /\ ~success)) =>
        /\ llm_call = Unset
        /\ response = Unset
        /\ Len(prompts) \in 1..Len(PromptOrder)
        /\ prompts = SubSeq(PromptOrder, 1, Len(prompts))
        /\ Len(prompts) = 1 => state.ast = None
        /\ Len(prompts) < Len(PromptOrder) => state.final_sql = <<>>
        /\ pc = "save" =>
              /\ intermediate_results = PyDict(<<>>)
              /\ ansi_result = <<"Error", ":", " ">> \o exc

\* C4 witness: the validator's call raised after stage 1 wrote an AST
C4_Witness ==
    /\ pc = "save"
    /\ ~success
    /\ prompts = PromptOrder
    /\ state.ast # None
    /\ intermediate_results = PyDict(<<>>)

\* C5 (as claimed): a convert call that returns has a non-empty result, and a
\* failed one carries no artifacts.
C5_SuccessHasNonEmptyResult ==
    pc = "save" =>
        IF success THEN ansi_result # <<>>
        ELSE intermediate_results = PyDict(<<>>)

\* C6: only the ParserAgent's return changes state.ast, and the artifacts
\* convert returns hold the value state.ast has at END.
C6_AstWrittenOnce ==
    [][ /\ (state # Unset /\ state' # Unset /\ state'.ast # state.ast) =>
              (pc = "ParserAgent" /\ pc' = "TranslationAgent")
        /\ (pc \in {"TranslationAgent", "SyntaxValidatorAgent"} /\ pc' # pc) =>
              state'.ast = state.ast
        /\ (pc = "END" /\ pc' = "save") =>
              /\ intermediate_results' = PyDict(<< << <<"AST">>, state.ast >> >>)
              /\ state' = state ]_vars

\* C6 witness: convert returned artifacts holding the parsed AST
C6_Witness ==
    /\ pc = "save"
    /\ success
    /\ state.ast.t = "dict"
    /\ ~ParseFailed
    /\ intermediate_results = PyDict(<< << <<"AST">>, state.ast >> >>)

\* C7: during a request state.input_query is the text passed to convert, and
\* each node's user message is its fixed heading followed by that text.
C7_InputQueryImmutable ==
    InRequest =>
        /\ state.input_query = user_question
        /\ llm_call # Unset =>
              LET head == IF pc = "ParserAgent"
                          THEN <<"SQL to parse:", "\n">>
                          ELSE <<"Original Snowflake SQL:", "\n">>
              IN  SubSeq(llm_call.user, 1, Len(head) + Len(user_question))
                      = head \o user_question

\* C7 witness: the validator's call in flight, after two stages wrote state
C7_Witness ==
    /\ pc = "SyntaxValidatorAgent"
    /\ llm_call # Unset
    /\ state.final_sql # <<>>
    /\ user_question = <<"SELECT", " ", "a", " ", "ILIKE", " ", "'x'">>

\* C8: at END state.final_sql is the validator's response stripped of leading
\* and trailing whitespace, and convert returns that text.
C8_ValidatorOutputIsFinal ==
    /\ pc = "END" => state.final_sql = strip(response.s)
    /\ (pc = "save" /\ success) =>
          /\ ansi_result = strip(response.s)
          /\ ansi_result = state.final_sql

\* C8 witness: a blank validator response replaced the candidate
C8_Witness ==
    /\ pc = "save"
    /\ success
    /\ response = PyStr(<<" ", "\n">>)
    /\ ansi_result = <<>>

\* C9: the history changes only when a request ends, by one entry appended
\* after the entries already there, for the question of that request; every
\* request that ends appends.
C9_HistoryAppendOnly ==
    [][ /\ interactive_chat_history' # interactive_chat_history =>
              (pc = "save" /\ pc' = "idle")
        /\ (pc # "idle" /\ pc' = "idle") =>
              /\ Len(interactive_chat_history') = Len(interactive_chat_history) + 1
              /\ SubSeq(interactive_chat_history', 1, Len(interactive_chat_history))
                     = interactive_chat_history
              /\ interactive_chat_history'[Len(interactive_chat_history')].question
                     = user_question ]_vars

\* C9 witness: two requests handled, the first failed, the second succeeded
C9_Witness ==
    /\ pc = "idle"
    /\ Len(interactive_chat_history) = 2
    /\ interactive_chat_history[1].intermediate = PyDict(<<>>)
    /\ interactive_chat_history[2].intermediate # PyDict(<<>>)
    /\ interactive_chat_history[1].question # interactive_chat_history[2].question

\* C10 (as claimed): every history entry records whether its request
\* succeeded in a field succeeded.
C10_EntryRecordsSucceeded ==
    \A i \in 1..Len(interactive_chat_history) :
        "succeeded" \in DOMAIN interactive_chat_history[i]

\* C11 (as claimed): when the TranslationAgent begins state.ast is populated
\* (neither None nor an empty mapping), and at END state.final_sql is
\* populated.
C11_PopulatedBeforeTranslation ==
    /\ pc = "TranslationAgent" => (state.ast # None /\ state.ast # PyDict(<<>>))
    /\ pc = "END" => state.final_sql # <<>>

\* no code fence and no whitespace at either end
IsBare(text) ==
    /\ ~Contains(text, FENCE)
    /\ text # <<>> => (text[1] \notin Whitespace /\ text[Len(text)] \notin Whitespace)

\* C14 (as claimed): what the TranslationAgent and the SyntaxValidatorAgent
\* store in state.final_sql carries no code fence and no surrounding
\* whitespace.
C14_OutputIsBareStatement ==
    pc \in {"SyntaxValidatorAgent", "END"} => IsBare(state.final_sql)

\* C15: when convert returns, the artifacts are a mapping with the single key
\* AST whose value is what stage 1 made of its response (the deserialized
\* value, or the ErrorDocument), and the result text is state.final_sql.
C15_ConvertReturnShape ==
    (pc = "save" /\ success) =>
        /\ intermediate_results.t = "dict"
        /\ Len(intermediate_results.items) = 1
        /\ intermediate_results.items[1][1] = <<"AST">>
        /\ intermediate_results.items[1][2] =
              (IF ParseFailed THEN ErrorDocument(parser_response.s)
               ELSE decode(parser_response.s).obj)
        /\ ansi_result = state.final_sql

\* C15 witness: the object response is returned as that mapping under AST
C15_Witness ==
    /\ pc = "save"
    /\ success
    /\ ansi_result = <<"SELECT", " ", "1">>
    /\ intermediate_results =
          PyDict(<< << <<"AST">>,
                       PyDict(<< << <<"type">>, PyStr(<<"select_statement">>) >>,
                                 << <<"select_list">>, PyList(<<PyInt(1)>>) >> >>) >> >>)

\* the validator's response is empty or whitespace only
BlankFinalResponse ==
    /\ Len(prompts) = Len(PromptOrder)
    /\ response # Unset
    /\ strip(response.s) = <<>>

\* C16: an empty candidate is still sent to the validator, a blank validator
\* response ends the request as a success with the empty result, and the
\* handler appends it as an entry with the empty answer and the AST artifacts.
C16_EmptyResponseIsSuccess ==
    /\ []( /\ (pc = "SyntaxValidatorAgent" /\ llm_call # Unset
                  /\ state.final_sql = <<>>) =>
                 llm_call.user = <<"Original Snowflake SQL:", "\n">> \o user_question
                                     \o <<"\n", "\n", "ANSI SQL:", "\n">>
           /\ (pc = "save" /\ BlankFinalResponse) =>
                 (success /\ ansi_result = <<>>) )
    /\ [][ (pc = "save" /\ BlankFinalResponse) =>
              interactive_chat_history'[Len(interactive_chat_history')] =
                  [question |-> user_question, answer |-> <<>>,
                   intermediate |-> PyDict(<< << <<"AST">>, state.ast >> >>)] ]_vars

\* C16 witness: a request with a whitespace-only final response was saved
\* with the empty answer
C16_Witness ==
    /\ pc = "idle"
    /\ interactive_chat_history # <<>>
    /\ interactive_chat_history[1].answer = <<>>
    /\ interactive_chat_history[1].intermediate # PyDict(<<>>)

\* a mapping with exactly the keys error and raw_response
HasErrorDocumentShape(v) ==
    /\ v.t = "dict"
    /\ Len(v.items) = 2
    /\ {v.items[1][1], v.items[2][1]} = {<<"error">>, <<"raw_response">>}

\* C18 (as claimed): state.ast has the ErrorDocument shape exactly when
\* json.loads rejected the ParserAgent's response.
C18_ErrorShapeIffParseFailed ==
    parser_response # Unset => (HasErrorDocumentShape(state.ast) <=> ParseFailed)

\* C17 (as claimed): the assistant message the handler rendered for a
\* request is the message the history replay renders for its entry.
C17_ReplayMatchesLive ==
    (pc = "idle" /\ screen # <<>>) =>
        replay_render(interactive_chat_history[Len(interactive_chat_history)])
            = screen[Len(screen)]

\* what stage 1 makes of a response
Stage1Value(content) ==
    IF decode(content).ok THEN decode(content).obj ELSE ErrorDocument(content)

\* C12: whatever the interleaving, the state, the messages and the result of
\* a session's convert call are made of that session's own question and of
\* the responses that session's own calls received.
C12_SessionsIsolated ==
    \A s \in Sessions :
        pc[s] # "idle" =>
            /\ state[s].input_query = user_question[s]
            /\ state[s].ast = (IF parser_response[s] = Unset THEN None
                               ELSE Stage1Value(parser_response[s].s))
            /\ pc[s] \in {"ParserAgent", "TranslationAgent"} =>
                  state[s].final_sql = <<>>
            /\ pc[s] \in {"SyntaxValidatorAgent", "END"} =>
                  state[s].final_sql = strip(response[s].s)
            /\ (pc[s] = "ParserAgent" /\ llm_call[s] # Unset) =>
                  llm_call[s].user = <<"SQL to parse:", "\n">> \o user_question[s]
            /\ (pc[s] = "TranslationAgent" /\ llm_call[s] # Unset) =>
                  llm_call[s].user =
                      <<"Original Snowflake SQL:", "\n">> \o user_question[s]
                          \o <<"\n", "\n", "AST:", "\n">>
                          \o json_dumps(Stage1Value(parser_response[s].s))
            /\ (pc[s] = "SyntaxValidatorAgent" /\ llm_call[s] # Unset) =>
                  llm_call[s].user =
                      <<"Original Snowflake SQL:", "\n">> \o user_question[s]
                          \o <<"\n", "\n", "ANSI SQL:", "\n">>
                          \o strip(response[s].s)
            /\ (pc[s] = "save" /\ success[s]) =>
                  /\ ansi_result[s] = strip(response[s].s)
                  /\ intermediate_results[s] =
                        PyDict(<< << <<"AST">>,
                                     Stage1Value(parser_response[s].s) >> >>)

\* C12 witness: two calls with different questions in flight at once, each
\* past a stage that wrote its state
C12_Witness ==
    /\ pc["A"] = "SyntaxValidatorAgent"
    /\ pc["B"] = "TranslationAgent"
    /\ llm_call["A"] # Unset
    /\ llm_call["B"] # Unset
    /\ user_question["A"] # user_question["B"]
    /\ state["A"].ast # state["B"].ast

\* C13: the validator's message is its headings around input_query and the
\* TranslationAgent's output and nothing else, so two runs that agree on
\* both send the same message whatever their ASTs are; and two runs whose
\* validator calls received the same response end with the same final_sql.
C13_OutputDependsOnInputAndCandidate ==
    \A a, b \in Sessions :
        /\ (pc[a] = "SyntaxValidatorAgent" /\ llm_call[a] # Unset) =>
              llm_call[a] =
                  [system |-> ValidatorPrompt,
                   user |-> <<"Original Snowflake SQL:", "\n">>
                                \o state[a].input_query
                                \o <<"\n", "\n", "ANSI SQL:", "\n">>
                                \o state[a].final_sql]
        /\ (/\ pc[a] = "SyntaxValidatorAgent" /\ llm_call[a] # Unset
            /\ pc[b] = "SyntaxValidatorAgent" /\ llm_call[b] # Unset
            /\ state[a].input_query = state[b].input_query
            /\ state[a].final_sql = state[b].final_sql) =>
              llm_call[a] = llm_call[b]
        /\ (pc[a] = "END" /\ pc[b] = "END" /\ response[a] = response[b]) =>
              state[a].final_sql = state[b].final_sql

\* C13 witness: two validator calls in flight for the same question and the
\* same candidate, after different ASTs
C13_Witness ==
    /\ pc["A"] = "SyntaxValidatorAgent"
    /\ pc["B"] = "SyntaxValidatorAgent"
    /\ llm_call["A"] # Unset
    /\ llm_call["A"] = llm_call["B"]
    /\ state["A"].ast # state["B"].ast
    /\ state["A"].final_sql = <<"SELECT", " ", "1">>

====
